---- MODULE Spec2Model ----
(***************************************************************************)
(* The spaced-repetition scheduler of langcat: the SM-2 flashcard update   *)
(* and the flashcard initialisation, as implemented twice: by              *)
(* FlashcardService (src/lib/database.ts) over the remote table            *)
(* flashcard_reviews, and by UnifiedProgressService                        *)
(* (src/services/progress-service.ts) over the AsyncStorage key            *)
(* flashcard_progress.                                                     *)
(*                                                                         *)
(* Numbers.  easeFactor is a double in the source; the model keeps it in   *)
(* hundredths (2.5 is 250), so the SM-2 delta                              *)
(* 0.1 - (5 - q) * (0.08 + (5 - q) * 0.02) is the integer                  *)
(* 10 - (5 - q) * (8 + (5 - q) * 2).  Math.round is round-half-up.  A      *)
(* product intervalDays * easeFactor that is an exact tie in decimal       *)
(* arithmetic is rounded up by the model; in double arithmetic an ease     *)
(* factor that has accumulated rounding error may fall just below the tie. *)
(*                                                                         *)
(* Time.  The clock is read in ticks; a day is TicksPerDay ticks (the      *)
(* source reads milliseconds, 24 * 60 * 60 * 1000 to the day).             *)
(*                                                                         *)
(* Spec runs the handlers one at a time, each to completion, with every    *)
(* storage call succeeding.                                                *)
(***************************************************************************)
EXTENDS Integers, FiniteSets, Sequences, TLC

\* ------------------------------------------------------------------ bounds
\* The clock takes the values 0..MaxNow.
MaxNow == 1
\* Ticks of the model clock per day.
TicksPerDay == 2
\* updateFlashcard calls in one behaviour of Spec.
MaxRatings == 4
\* SpecStored starts from any stored state within these.
MaxStoredEase == 262
MaxStoredRepetitions == 3
MaxStoredInterval == 15
\* SpecSession: days that pass, updateFlashcard calls, and the largest limit
\* getDueFlashcards is called with.
MaxSessionDays == 1
MaxSessionRatings == 2
MaxLimit == 2
\* SpecRace: handler calls in one behaviour.
MaxCalls == 2

\* The vocabulary catalog, in word_order: the ids the initialising handlers
\* are called with.  The learner rates the first card of it.
Catalog == <<"v1", "v2">>
Items == {Catalog[k] : k \in 1..Len(Catalog)}
RatedItems == {Catalog[1]}

\* The quality scale of the rating (0-5), and the numbers a caller can pass
\* beyond it: quality is a plain number and no handler checks it.
Qualities == 0..5
QualityInputs == -1..6

VARIABLES
    backend,            \* the service a behaviour drives: "remote" is FlashcardService
                        \* over flashcard_reviews, "local" is UnifiedProgressService
                        \* over flashcard_progress; the two share no state
    now,                \* the device clock, new Date()
    flashcard_reviews,  \* remote table: the rows of the one user, by vocabulary_id
    flashcard_progress, \* AsyncStorage FLASHCARD_PROGRESS: vocabularyId -> progress
    review_due,         \* AsyncStorage REVIEW_DUE
    ratings,            \* updateFlashcard calls so far
    last,               \* the last handler that ran: its arguments, the time it
                        \* started at, the ReviewStates it found and its outcome
    passes,             \* per item, the ratings of quality >= 3 it has received in
                        \* a row up to now, counted from the creation of its
                        \* ReviewState (history, no handler reads it; kept where
                        \* the handlers run one at a time)
    calls,              \* the handler calls of SpecRace, in the order they started:
                        \* what each was called with, where it stands, what it holds
    session,            \* ReviewSessionScreen: its useState values and the
                        \* handleRating calls that await their updateFlashcard
    user_progress,      \* AsyncStorage COMPLETED_LESSONS, STREAK, LAST_STUDY_DATE
    scenario_cache      \* scenarios-service.ts: scenariosCache, cacheTimestamp, the
                        \* scenarios table and the queries made of it

vars == <<backend, now, flashcard_reviews, flashcard_progress, review_due, ratings, last,
          passes, calls, session, user_progress, scenario_cache>>

\* null, undefined, or an AsyncStorage key with no item.
NoItem == -1

\* ReviewSessionScreen as useState leaves it on mount (scenario/[id].tsx 974-980).
NoSession ==
    [vocabulary |-> <<>>, loading |-> TRUE, currentCardIndex |-> 0,
     isFlipped |-> FALSE, reviewedCards |-> {}, pending |-> <<>>]

\* AsyncStorage with none of the progress keys.
NoProgress == [COMPLETED_LESSONS |-> {}, STREAK |-> NoItem, LAST_STUDY_DATE |-> NoItem]

\* The module state of scenarios-service.ts (lines 34-35); scenarios, the
\* version of the scenarios table; inflight, the getAllScenarios calls that
\* await their select; and history no code reads: started, the calls made so
\* far; fetched, the Date.now() of the calls whose fetch has succeeded since
\* the last clearCache; cleared, no call has been made since clearCache.
NoCache ==
    [scenariosCache |-> NoItem, cacheTimestamp |-> 0, scenarios |-> 0, inflight |-> <<>>,
     started |-> 0, fetched |-> {}, cleared |-> FALSE]

\* ------------------------------------------------------------ pure helpers
Max(a, b) == IF a >= b THEN a ELSE b

\* Math.round of x / 100, x >= 0 or not: floor(x / 100 + 0.5).
MathRound(x) == (x + 50) \div 100

\* `v || d` on a field of a row that may be missing: 0 and undefined are falsy.
OrDefault(has, v, d) == IF has /\ v # 0 THEN v ELSE d

\* A function with key k set to v, whether or not k was in its domain.
Upsert(f, k, v) == [x \in (DOMAIN f) \cup {k} |-> IF x = k THEN v ELSE f[x]]

\* The entries of f whose keys are in ids.
Restrict(f, ids) == [id \in ids \cap DOMAIN f |-> f[id]]

\* FlashcardService_sm2 without the floor of line 398.
FlashcardService_sm2_NoFloor(easeFactor0, repetitions0, intervalDays0, quality) ==
    LET easeFactor == easeFactor0 + (10 - (5 - quality) * (8 + (5 - quality) * 2))
    IN  IF quality < 3
        THEN [easeFactor |-> easeFactor, repetitions |-> 0, intervalDays |-> 1]
        ELSE LET repetitions == repetitions0 + 1
             IN  [easeFactor |-> easeFactor,
                  repetitions |-> repetitions,
                  intervalDays |-> IF repetitions = 1 THEN 1
                                   ELSE IF repetitions = 2 THEN 6
                                   ELSE MathRound(intervalDays0 * easeFactor)]

\* FlashcardService_sm2 with the test of line 407 written `repetitions >= 2`.
FlashcardService_sm2_AlwaysSix(easeFactor0, repetitions0, intervalDays0, quality) ==
    LET easeFactor == Max(130, easeFactor0 + (10 - (5 - quality) * (8 + (5 - quality) * 2)))
    IN  IF quality < 3
        THEN [easeFactor |-> easeFactor, repetitions |-> 0, intervalDays |-> 1]
        ELSE LET repetitions == repetitions0 + 1
             IN  [easeFactor |-> easeFactor,
                  repetitions |-> repetitions,
                  intervalDays |-> IF repetitions = 1 THEN 1
                                   ELSE IF repetitions >= 2 THEN 6
                                   ELSE MathRound(intervalDays0 * easeFactor)]

\* FlashcardService_sm2 with a lapse that keeps the repetitions (line 401 left out).
FlashcardService_sm2_KeepRepetitions(easeFactor0, repetitions0, intervalDays0, quality) ==
    LET easeFactor == Max(130, easeFactor0 + (10 - (5 - quality) * (8 + (5 - quality) * 2)))
    IN  IF quality < 3
        THEN [easeFactor |-> easeFactor, repetitions |-> repetitions0, intervalDays |-> 1]
        ELSE LET repetitions == repetitions0 + 1
             IN  [easeFactor |-> easeFactor,
                  repetitions |-> repetitions,
                  intervalDays |-> IF repetitions = 1 THEN 1
                                   ELSE IF repetitions = 2 THEN 6
                                   ELSE MathRound(intervalDays0 * easeFactor)]

\* FlashcardService.updateFlashcard, the SM-2 step (database.ts 396-412).
FlashcardService_sm2(easeFactor0, repetitions0, intervalDays0, quality) ==
    LET easeFactor == Max(130, easeFactor0 + (10 - (5 - quality) * (8 + (5 - quality) * 2)))
    IN  IF quality < 3
        THEN [easeFactor |-> easeFactor, repetitions |-> 0, intervalDays |-> 1]
        ELSE LET repetitions == repetitions0 + 1
             IN  [easeFactor |-> easeFactor,
                  repetitions |-> repetitions,
                  intervalDays |-> IF repetitions = 1 THEN 1
                                   ELSE IF repetitions = 2 THEN 6
                                   ELSE MathRound(intervalDays0 * easeFactor)]

\* UnifiedProgressService_sm2 with a lapse that keeps the interval (line 291 left out).
UnifiedProgressService_sm2_KeepInterval(easeFactor0, repetitions0, intervalDays0, quality) ==
    LET easeFactor == Max(130, easeFactor0 + (10 - (5 - quality) * (8 + (5 - quality) * 2)))
    IN  IF quality < 3
        THEN [easeFactor |-> easeFactor, repetitions |-> 0, intervalDays |-> intervalDays0]
        ELSE LET repetitions == repetitions0 + 1
             IN  [easeFactor |-> easeFactor,
                  repetitions |-> repetitions,
                  intervalDays |-> IF repetitions = 1 THEN 1
                                   ELSE IF repetitions = 2 THEN 6
                                   ELSE MathRound(intervalDays0 * easeFactor)]

\* UnifiedProgressService_sm2 with 0.08 and 0.02 of line 286 exchanged.
UnifiedProgressService_sm2_Coefficients(easeFactor0, repetitions0, intervalDays0, quality) ==
    LET easeFactor == Max(130, easeFactor0 + (10 - (5 - quality) * (2 + (5 - quality) * 8)))
    IN  IF quality < 3
        THEN [easeFactor |-> easeFactor, repetitions |-> 0, intervalDays |-> 1]
        ELSE LET repetitions == repetitions0 + 1
             IN  [easeFactor |-> easeFactor,
                  repetitions |-> repetitions,
                  intervalDays |-> IF repetitions = 1 THEN 1
                                   ELSE IF repetitions = 2 THEN 6
                                   ELSE MathRound(intervalDays0 * easeFactor)]

\* UnifiedProgressService_sm2 growing the interval by the ease factor as it was
\* before line 286 updated it.
UnifiedProgressService_sm2_OldEase(easeFactor0, repetitions0, intervalDays0, quality) ==
    LET easeFactor == Max(130, easeFactor0 + (10 - (5 - quality) * (8 + (5 - quality) * 2)))
    IN  IF quality < 3
        THEN [easeFactor |-> easeFactor, repetitions |-> 0, intervalDays |-> 1]
        ELSE LET repetitions == repetitions0 + 1
             IN  [easeFactor |-> easeFactor,
                  repetitions |-> repetitions,
                  intervalDays |-> IF repetitions = 1 THEN 1
                                   ELSE IF repetitions = 2 THEN 6
                                   ELSE MathRound(intervalDays0 * easeFactor0)]

\* UnifiedProgressService_sm2 with the interval of line 297 written 1.
UnifiedProgressService_sm2_SecondOne(easeFactor0, repetitions0, intervalDays0, quality) ==
    LET easeFactor == Max(130, easeFactor0 + (10 - (5 - quality) * (8 + (5 - quality) * 2)))
    IN  IF quality < 3
        THEN [easeFactor |-> easeFactor, repetitions |-> 0, intervalDays |-> 1]
        ELSE LET repetitions == repetitions0 + 1
             IN  [easeFactor |-> easeFactor,
                  repetitions |-> repetitions,
                  intervalDays |-> IF repetitions = 1 THEN 1
                                   ELSE IF repetitions = 2 THEN 1
                                   ELSE MathRound(intervalDays0 * easeFactor)]

\* UnifiedProgressService_sm2 with the test of line 289 written `quality < 4`.
UnifiedProgressService_sm2_LapseBelowFour(easeFactor0, repetitions0, intervalDays0, quality) ==
    LET easeFactor == Max(130, easeFactor0 + (10 - (5 - quality) * (8 + (5 - quality) * 2)))
    IN  IF quality < 4
        THEN [easeFactor |-> easeFactor, repetitions |-> 0, intervalDays |-> 1]
        ELSE LET repetitions == repetitions0 + 1
             IN  [easeFactor |-> easeFactor,
                  repetitions |-> repetitions,
                  intervalDays |-> IF repetitions = 1 THEN 1
                                   ELSE IF repetitions = 2 THEN 6
                                   ELSE MathRound(intervalDays0 * easeFactor)]

\* UnifiedProgressService.updateFlashcard, the SM-2 step (progress-service.ts 285-301).
UnifiedProgressService_sm2(easeFactor0, repetitions0, intervalDays0, quality) ==
    LET easeFactor == Max(130, easeFactor0 + (10 - (5 - quality) * (8 + (5 - quality) * 2)))
    IN  IF quality < 3
        THEN [easeFactor |-> easeFactor, repetitions |-> 0, intervalDays |-> 1]
        ELSE LET repetitions == repetitions0 + 1
             IN  [easeFactor |-> easeFactor,
                  repetitions |-> repetitions,
                  intervalDays |-> IF repetitions = 1 THEN 1
                                   ELSE IF repetitions = 2 THEN 6
                                   ELSE MathRound(intervalDays0 * easeFactor)]

\* FlashcardService_row with nextReview = now (the interval of line 415 left out).
FlashcardService_row_NoInterval(has, current, quality, t) ==
    LET r == FlashcardService_sm2(OrDefault(has, current.ease_factor, 250),
                                  OrDefault(has, current.repetitions, 0),
                                  OrDefault(has, current.interval_days, 0),
                                  quality)
    IN  [ease_factor |-> r.easeFactor,
         interval_days |-> r.intervalDays,
         repetitions |-> r.repetitions,
         last_reviewed_at |-> t,
         next_review_at |-> t]

\* The row FlashcardService.updateFlashcard upserts at time t, current being the
\* row its select returned (has: it returned one) (database.ts 392-426).
FlashcardService_row(has, current, quality, t) ==
    LET r == FlashcardService_sm2(OrDefault(has, current.ease_factor, 250),
                                  OrDefault(has, current.repetitions, 0),
                                  OrDefault(has, current.interval_days, 0),
                                  quality)
    IN  [ease_factor |-> r.easeFactor,
         interval_days |-> r.intervalDays,
         repetitions |-> r.repetitions,
         last_reviewed_at |-> t,
         next_review_at |-> t + r.intervalDays * TicksPerDay]

\* The entry UnifiedProgressService.updateFlashcard sets at time t, current being
\* allProgress.get(vocabularyId) (has: it is defined) (progress-service.ts 281-313).
UnifiedProgressService_entry(has, current, quality, t) ==
    LET r == UnifiedProgressService_sm2(OrDefault(has, current.easeFactor, 250),
                                        OrDefault(has, current.repetitions, 0),
                                        OrDefault(has, current.intervalDays, 0),
                                        quality)
    IN  [easeFactor |-> r.easeFactor,
         intervalDays |-> r.intervalDays,
         repetitions |-> r.repetitions,
         lastReviewedAt |-> t,
         nextReviewAt |-> t + r.intervalDays * TicksPerDay]

\* A new row of flashcard_reviews (database.ts 308-316, 443-451).
NewRow(lastReviewedAt, nextReviewAt) ==
    [ease_factor |-> 250, interval_days |-> 0, repetitions |-> 0,
     last_reviewed_at |-> lastReviewedAt, next_review_at |-> nextReviewAt]

\* A new entry of flashcard_progress (progress-service.ts 334-341).
NewProgress(t) ==
    [easeFactor |-> 250, intervalDays |-> 0, repetitions |-> 0,
     lastReviewedAt |-> t, nextReviewAt |-> t]

\* getFlashcardStats().due over a progress map, read at time t
\* (progress-service.ts 360-362).
DueCount(progress, t) ==
    Cardinality({id \in DOMAIN progress : progress[id].nextReviewAt <= t})

\* A later reading of the clock inside one handler, the earlier one being t:
\* the clock has not gone back, and may have moved on.
LaterReads(t) == t..Max(t, MaxNow)

\* The position of a catalog id in word_order.
IndexOf(id) == CHOOSE k \in 1..Len(Catalog) : Catalog[k] = id

\* The n readings of the clock a handler takes one after the other, the first
\* at time t.
ClockReads(t, n) ==
    {r \in [1..n -> LaterReads(t)] :
        /\ n >= 1 => r[1] = t
        /\ \A k \in 1..(n - 1) : r[k] <= r[k + 1]}

\* The ReviewState of the data model held by a row of flashcard_reviews.
ReviewStateOf(row) ==
    [easeFactor |-> row.ease_factor, intervalDays |-> row.interval_days,
     repetitions |-> row.repetitions, lastReviewedAt |-> row.last_reviewed_at,
     nextReviewAt |-> row.next_review_at]

\* The ReviewStates of a store, by item id.
RemoteStates(rows) == [id \in DOMAIN rows |-> ReviewStateOf(rows[id])]

NoStates == [id \in {} |-> 0]

\* The ReviewStates the service of this behaviour holds, by item id.
States == IF backend = "remote" THEN RemoteStates(flashcard_reviews) ELSE flashcard_progress

\* ------------------------------------------------------------------- Init
\* Nothing stored yet, no handler has run.
Init ==
    /\ backend \in {"remote", "local"}
    /\ now = 0
    /\ flashcard_reviews = NoStates
    /\ flashcard_progress = NoStates
    /\ review_due = 0
    /\ ratings = 0
    /\ last = [op |-> "none", ids |-> {}, quality |-> 0, at |-> 0,
               pre |-> NoStates, result |-> "ok"]
    /\ passes = [id \in Items |-> 0]
    /\ calls = <<>>
    /\ session = NoSession
    /\ user_progress = NoProgress
    /\ scenario_cache = NoCache

\* ---------------------------------------------------------------- actions
\* Time passes between two handlers.
Tick ==
    /\ now < MaxNow
    /\ now' = now + 1
    /\ UNCHANGED <<backend, session, user_progress, scenario_cache, flashcard_reviews, flashcard_progress, review_due,
                   ratings, last, passes, calls>>

\* FlashcardService.ensureFlashcardsExist(userId, vocabularyIds).
EnsureFlashcardsExist(vocabularyIds) ==
    LET existingIds == vocabularyIds \cap DOMAIN flashcard_reviews
        newIds == vocabularyIds \ existingIds
    IN  /\ backend = "remote"
        /\ flashcard_reviews' =
              IF newIds = {} THEN flashcard_reviews
              ELSE [id \in (DOMAIN flashcard_reviews) \cup newIds |->
                        IF id \in newIds THEN NewRow(now, now)
                        ELSE flashcard_reviews[id]]
        /\ last' = [op |-> "ensureFlashcardsExist", ids |-> vocabularyIds,
                    quality |-> 0, at |-> now,
                    pre |-> RemoteStates(flashcard_reviews), result |-> "ok"]
        /\ passes' = [id \in Items |-> IF id \in newIds THEN 0 ELSE passes[id]]
        /\ UNCHANGED <<backend, session, user_progress, scenario_cache, now, flashcard_progress, review_due, ratings, calls>>

\* FlashcardService.updateFlashcard(userId, vocabularyId, quality).
FlashcardServiceUpdateFlashcard(vocabularyId, quality) ==
    LET has == vocabularyId \in DOMAIN flashcard_reviews
        current == IF has THEN flashcard_reviews[vocabularyId] ELSE NewRow(0, 0)
        row == FlashcardService_row(has, current, quality, now)
    IN  /\ backend = "remote"
        /\ ratings < MaxRatings
        /\ ratings' = ratings + 1
        /\ flashcard_reviews' = Upsert(flashcard_reviews, vocabularyId, row)
        /\ last' = [op |-> "updateFlashcard", ids |-> {vocabularyId},
                    quality |-> quality, at |-> now,
                    pre |-> RemoteStates(flashcard_reviews), result |-> "ok"]
        /\ passes' = [passes EXCEPT ![vocabularyId] = IF quality < 3 THEN 0 ELSE @ + 1]
        /\ UNCHANGED <<backend, session, user_progress, scenario_cache, now, flashcard_progress, review_due, calls>>

\* FlashcardService.initializeFlashcardsForLesson(userId, lessonId), vocabulary
\* being the lesson's words (a part of the catalog, in word_order).  Every row is
\* built with two readings of the clock.  The upsert names no conflict target:
\* where a row of the user exists for one of the words, it either replaces the
\* rows (the key of spec section 6, (learner, item)) or is rejected as a whole by
\* the table's unique constraint, which of the two the schema decides.
InitializeFlashcardsForLesson(vocabulary) ==
    LET rank(id) == Cardinality({j \in vocabulary : IndexOf(j) < IndexOf(id)}) + 1
        n == 2 * Cardinality(vocabulary)
    IN  /\ backend = "remote"
        /\ \E r \in ClockReads(now, n) :
              LET flashcards == [id \in vocabulary |->
                                    NewRow(r[2 * rank(id) - 1], r[2 * rank(id)])]
              IN  /\ now' = IF n = 0 THEN now ELSE r[n]
                  /\ \/ /\ flashcard_reviews' =
                              [id \in (DOMAIN flashcard_reviews) \cup vocabulary |->
                                  IF id \in vocabulary THEN flashcards[id]
                                  ELSE flashcard_reviews[id]]
                        /\ last' = [op |-> "initializeFlashcardsForLesson",
                                    ids |-> vocabulary, quality |-> 0, at |-> now,
                                    pre |-> RemoteStates(flashcard_reviews),
                                    result |-> "ok"]
                        /\ passes' = [id \in Items |->
                                         IF id \in vocabulary THEN 0 ELSE passes[id]]
                     \/ /\ vocabulary \cap DOMAIN flashcard_reviews # {}
                        /\ UNCHANGED <<flashcard_reviews, passes>>
                        /\ last' = [op |-> "initializeFlashcardsForLesson",
                                    ids |-> vocabulary, quality |-> 0, at |-> now,
                                    pre |-> RemoteStates(flashcard_reviews),
                                    result |-> "error"]
        /\ UNCHANGED <<backend, session, user_progress, scenario_cache, flashcard_progress, review_due, ratings, calls>>

\* UnifiedProgressService.updateFlashcard(vocabularyId, quality), with the
\* recalculateDueCount that ends it.
UnifiedProgressServiceUpdateFlashcard(vocabularyId, quality) ==
    LET allProgress == flashcard_progress
        has == vocabularyId \in DOMAIN allProgress
        current == IF has THEN allProgress[vocabularyId] ELSE NewProgress(0)
        entry == UnifiedProgressService_entry(has, current, quality, now)
    IN  /\ backend = "local"
        /\ ratings < MaxRatings
        /\ ratings' = ratings + 1
        /\ flashcard_progress' = Upsert(allProgress, vocabularyId, entry)
        /\ \E t \in LaterReads(now) :
              /\ review_due' = DueCount(flashcard_progress', t)
              /\ now' = t
        /\ last' = [op |-> "updateFlashcard", ids |-> {vocabularyId},
                    quality |-> quality, at |-> now,
                    pre |-> flashcard_progress, result |-> "ok"]
        /\ passes' = [passes EXCEPT ![vocabularyId] = IF quality < 3 THEN 0 ELSE @ + 1]
        /\ UNCHANGED <<backend, session, user_progress, scenario_cache, flashcard_reviews, calls>>

\* UnifiedProgressService.initializeFlashcards(vocabularyIds), with the
\* recalculateDueCount that ends it.
InitializeFlashcards(vocabularyIds) ==
    LET allProgress == flashcard_progress
    IN  /\ backend = "local"
        /\ flashcard_progress' =
              [id \in (DOMAIN allProgress) \cup vocabularyIds |->
                  IF id \in DOMAIN allProgress THEN allProgress[id]
                  ELSE NewProgress(now)]
        /\ \E t \in LaterReads(now) :
              /\ review_due' = DueCount(flashcard_progress', t)
              /\ now' = t
        /\ last' = [op |-> "initializeFlashcards", ids |-> vocabularyIds,
                    quality |-> 0, at |-> now,
                    pre |-> flashcard_progress, result |-> "ok"]
        /\ passes' = [id \in Items |->
                         IF id \in vocabularyIds \ DOMAIN allProgress THEN 0
                         ELSE passes[id]]
        /\ UNCHANGED <<backend, session, user_progress, scenario_cache, flashcard_reviews, ratings, calls>>

Next ==
    \/ Tick
    \/ \E ids \in SUBSET Items : EnsureFlashcardsExist(ids)
    \/ \E ids \in SUBSET Items : InitializeFlashcardsForLesson(ids)
    \/ \E ids \in SUBSET Items : InitializeFlashcards(ids)
    \/ \E id \in RatedItems, q \in Qualities : FlashcardServiceUpdateFlashcard(id, q)
    \/ \E id \in RatedItems, q \in Qualities :
          UnifiedProgressServiceUpdateFlashcard(id, q)

\* The handlers one at a time from empty stores, every rating on the 0-5 scale.
Spec == Init /\ [][Next]_vars

\* ----------------------------------------------------- the SM-2 step alone
\* A stored ReviewState of the rated card, whatever wrote it, last reviewed at
\* time 0.  The ease factors are the even hundredths: 2.5 is one, and every SM-2
\* delta is even.
StoredStates ==
    {[easeFactor |-> e, intervalDays |-> i, repetitions |-> n,
      lastReviewedAt |-> 0, nextReviewAt |-> i * TicksPerDay] :
        e \in {x \in 130..MaxStoredEase : x % 2 = 0},
        i \in 0..MaxStoredInterval,
        n \in 0..MaxStoredRepetitions}

RowOf(s) ==
    [ease_factor |-> s.easeFactor, interval_days |-> s.intervalDays,
     repetitions |-> s.repetitions, last_reviewed_at |-> s.lastReviewedAt,
     next_review_at |-> s.nextReviewAt]

\* The rated card is stored with any ReviewState, and one updateFlashcard call
\* is to come.
InitStored ==
    /\ backend \in {"remote", "local"}
    /\ now = 0
    /\ \E s \in StoredStates :
          /\ flashcard_reviews =
                IF backend = "remote" THEN [id \in RatedItems |-> RowOf(s)] ELSE NoStates
          /\ flashcard_progress =
                IF backend = "local" THEN [id \in RatedItems |-> s] ELSE NoStates
          /\ passes = [id \in Items |-> IF id \in RatedItems THEN s.repetitions ELSE 0]
    /\ calls = <<>>
    /\ review_due = 0
    /\ ratings = MaxRatings - 1
    /\ last = [op |-> "none", ids |-> {}, quality |-> 0, at |-> 0,
               pre |-> NoStates, result |-> "ok"]
    /\ session = NoSession
    /\ user_progress = NoProgress
    /\ scenario_cache = NoCache

NextStored ==
    \/ \E id \in RatedItems, q \in QualityInputs : FlashcardServiceUpdateFlashcard(id, q)
    \/ \E id \in RatedItems, q \in QualityInputs :
          UnifiedProgressServiceUpdateFlashcard(id, q)

\* One updateFlashcard call, with any number for quality, on any stored ReviewState.
SpecStored == InitStored /\ [][NextStored]_vars

\* ------------------------------------------------ the two services in step
\* The same updateFlashcard call made on both services at the same time, each
\* reading its own store and writing its own store, the local one ending with
\* its recalculateDueCount.
UpdateFlashcardInBoth(vocabularyId, quality) ==
    LET hasRow == vocabularyId \in DOMAIN flashcard_reviews
        currentRow == IF hasRow THEN flashcard_reviews[vocabularyId] ELSE NewRow(0, 0)
        allProgress == flashcard_progress
        hasEntry == vocabularyId \in DOMAIN allProgress
        currentEntry == IF hasEntry THEN allProgress[vocabularyId] ELSE NewProgress(0)
    IN  /\ backend = "both"
        /\ ratings < MaxRatings
        /\ ratings' = ratings + 1
        /\ flashcard_reviews' =
              Upsert(flashcard_reviews, vocabularyId,
                     FlashcardService_row(hasRow, currentRow, quality, now))
        /\ flashcard_progress' =
              Upsert(allProgress, vocabularyId,
                     UnifiedProgressService_entry(hasEntry, currentEntry, quality, now))
        /\ \E t \in LaterReads(now) :
              /\ review_due' = DueCount(flashcard_progress', t)
              /\ now' = t
        /\ last' = [op |-> "updateFlashcard", ids |-> {vocabularyId},
                    quality |-> quality, at |-> now,
                    pre |-> flashcard_progress, result |-> "ok"]
        /\ passes' = [passes EXCEPT ![vocabularyId] = IF quality < 3 THEN 0 ELSE @ + 1]
        /\ UNCHANGED <<backend, session, user_progress, scenario_cache, calls>>

\* Both stores hold the rated card with the same ReviewState, any of
\* StoredStates, and one call is to come; or both are empty and MaxRatings
\* calls are to come.
InitBoth ==
    /\ backend = "both"
    /\ now = 0
    /\ \/ \E s \in StoredStates :
             /\ flashcard_reviews = [id \in RatedItems |-> RowOf(s)]
             /\ flashcard_progress = [id \in RatedItems |-> s]
             /\ passes = [id \in Items |-> IF id \in RatedItems THEN s.repetitions ELSE 0]
             /\ ratings = MaxRatings - 1
       \/ /\ flashcard_reviews = NoStates
          /\ flashcard_progress = NoStates
          /\ passes = [id \in Items |-> 0]
          /\ ratings = 0
    /\ review_due = 0
    /\ last = [op |-> "none", ids |-> {}, quality |-> 0, at |-> 0,
               pre |-> NoStates, result |-> "ok"]
    /\ calls = <<>>
    /\ session = NoSession
    /\ user_progress = NoProgress
    /\ scenario_cache = NoCache

NextBoth ==
    \/ Tick
    \/ \E id \in RatedItems, q \in QualityInputs : UpdateFlashcardInBoth(id, q)

\* The same calls, with any number for quality, made on the two services in step.
SpecBoth == InitBoth /\ [][NextBoth]_vars

\* ------------------------------------------- sessions, queries and the reset
\* A day passes between two handlers.
DayPasses ==
    /\ now < MaxSessionDays * TicksPerDay
    /\ now' = now + TicksPerDay
    /\ UNCHANGED <<backend, session, user_progress, scenario_cache, flashcard_reviews, flashcard_progress, review_due,
                   ratings, last, passes, calls>>

Min(a, b) == IF a <= b THEN a ELSE b

\* .lte('next_review_at', now): the rows a due query selects (database.ts 352).
DueRows(rows, t) == {id \in DOMAIN rows : rows[id].next_review_at <= t}

\* .order('next_review_at').limit(limit) over the selected rows ids: what the
\* query may return.  Rows of equal next_review_at come in any order.
OrderLimit(rows, ids, limit) ==
    {result \in SUBSET ids :
        /\ Cardinality(result) = Min(limit, Cardinality(ids))
        /\ \A r \in result, o \in ids \ result :
               rows[r].next_review_at <= rows[o].next_review_at}

\* FlashcardService.getDueFlashcards(userId, limit).
GetDueFlashcards(limit) ==
    /\ backend = "remote"
    /\ \E result \in OrderLimit(flashcard_reviews, DueRows(flashcard_reviews, now), limit) :
          last' = [op |-> "getDueFlashcards", ids |-> {}, quality |-> 0, at |-> now,
                   pre |-> RemoteStates(flashcard_reviews), result |-> result,
                   limit |-> limit]
    /\ UNCHANGED <<backend, session, user_progress, scenario_cache, now, flashcard_reviews, flashcard_progress, review_due,
                   ratings, passes, calls>>

\* allFlashcards.filter(f => new Date(f.next_review_at) <= now) of the session
\* screen (scenario/[id].tsx 1013-1015, 1044-1046).
DueVocabIds(allFlashcards, t) ==
    {id \in DOMAIN allFlashcards : allFlashcards[id].next_review_at <= t}

\* ReviewSessionScreen.loadVocabulary for a deck or a level whose words are
\* vocabularyIds: ensureFlashcardsExist, getFlashcardsForVocabulary, and the
\* filter on a later reading of the clock.
LoadVocabulary(vocabularyIds) ==
    LET newIds == vocabularyIds \ DOMAIN flashcard_reviews
        rows == [id \in (DOMAIN flashcard_reviews) \cup newIds |->
                    IF id \in newIds THEN NewRow(now, now) ELSE flashcard_reviews[id]]
        allFlashcards == [id \in vocabularyIds |-> rows[id]]
    IN  /\ backend = "remote"
        /\ flashcard_reviews' = rows
        /\ \E t \in LaterReads(now) :
              /\ now' = t
              /\ last' = [op |-> "loadVocabulary", ids |-> vocabularyIds, quality |-> 0,
                          at |-> now, pre |-> RemoteStates(flashcard_reviews),
                          result |-> DueVocabIds(allFlashcards, t), filteredAt |-> t]
        /\ passes' = [id \in Items |-> IF id \in newIds THEN 0 ELSE passes[id]]
        /\ UNCHANGED <<backend, session, user_progress, scenario_cache, flashcard_progress, review_due, ratings, calls>>

\* UnifiedProgressService.getFlashcardStats().
GetFlashcardStats ==
    LET allProgress == flashcard_progress
        total == Cardinality(DOMAIN allProgress)
        mature == Cardinality({id \in DOMAIN allProgress : allProgress[id].repetitions >= 3})
    IN  /\ backend = "local"
        /\ last' = [op |-> "getFlashcardStats", ids |-> {}, quality |-> 0, at |-> now,
                    pre |-> flashcard_progress,
                    result |-> [total |-> total, due |-> DueCount(allProgress, now),
                                mature |-> mature, new |-> total - mature]]
        /\ UNCHANGED <<backend, session, user_progress, scenario_cache, now, flashcard_reviews, flashcard_progress, review_due,
                       ratings, passes, calls>>

\* UnifiedProgressService.resetProgress(): every key of STORAGE_KEYS is removed.
ResetProgress ==
    /\ backend = "local"
    /\ flashcard_progress' = NoStates
    /\ review_due' = 0
    /\ passes' = [id \in Items |-> 0]
    /\ user_progress' = NoProgress
    /\ last' = [op |-> "resetProgress", ids |-> {}, quality |-> 0, at |-> now,
                pre |-> flashcard_progress, result |-> "ok"]
    /\ UNCHANGED <<backend, session, scenario_cache, now, flashcard_reviews, ratings, calls>>

NextSession ==
    \/ Tick
    \/ DayPasses
    \/ \E ids \in SUBSET Items : EnsureFlashcardsExist(ids)
    \/ \E ids \in SUBSET Items : InitializeFlashcardsForLesson(ids)
    \/ \E ids \in SUBSET Items : InitializeFlashcards(ids)
    \/ \E id \in RatedItems, q \in Qualities :
          ratings < MaxSessionRatings /\ FlashcardServiceUpdateFlashcard(id, q)
    \/ \E id \in RatedItems, q \in Qualities :
          ratings < MaxSessionRatings /\ UnifiedProgressServiceUpdateFlashcard(id, q)
    \/ \E limit \in 1..MaxLimit : GetDueFlashcards(limit)
    \/ \E ids \in SUBSET Items : LoadVocabulary(ids)
    \/ GetFlashcardStats
    \/ ResetProgress

\* The handlers one at a time from empty stores, over days, with the due
\* queries, the statistics and the reset.
SpecSession == Init /\ [][NextSession]_vars

\* ------------------------------------------------------ the review screens
\* Accuracy with 100 for a deck that has no reviewed card (the `: 0` of line 96).
Accuracy_NoneIsAll(flashcardProgress) ==
    LET reviewedCards == {id \in DOMAIN flashcardProgress :
                             flashcardProgress[id].repetitions > 0}
        successfulCards == Cardinality({id \in reviewedCards :
                                           flashcardProgress[id].repetitions >= 1})
    IN  IF Cardinality(reviewedCards) > 0
        THEN (200 * successfulCards + Cardinality(reviewedCards))
                 \div (2 * Cardinality(reviewedCards))
        ELSE 100

\* Accuracy with `repetitions >= 2` for the `repetitions >= 1` of line 93.
Accuracy_FromTwo(flashcardProgress) ==
    LET reviewedCards == {id \in DOMAIN flashcardProgress :
                             flashcardProgress[id].repetitions > 0}
        successfulCards == Cardinality({id \in reviewedCards :
                                           flashcardProgress[id].repetitions >= 2})
    IN  IF Cardinality(reviewedCards) > 0
        THEN (200 * successfulCards + Cardinality(reviewedCards))
                 \div (2 * Cardinality(reviewedCards))
        ELSE 0

\* The accuracy of a deck of the review screen (review.tsx 92-96):
\* Math.round(successfulCards / reviewedCards.length * 100), half up.
Accuracy(flashcardProgress) ==
    LET reviewedCards == {id \in DOMAIN flashcardProgress :
                             flashcardProgress[id].repetitions > 0}
        successfulCards == Cardinality({id \in reviewedCards :
                                           flashcardProgress[id].repetitions >= 1})
    IN  IF Cardinality(reviewedCards) > 0
        THEN (200 * successfulCards + Cardinality(reviewedCards))
                 \div (2 * Cardinality(reviewedCards))
        ELSE 0

\* ReviewScreen.loadReviewData, for the deck of one HSK level whose words are
\* vocabulary: the statistics of all rows, the rows of the level, and what the
\* deck shows.
LoadReviewData(vocabulary) ==
    LET flashcardProgress == Restrict(flashcard_reviews, vocabulary)
    IN  /\ backend = "remote"
        /\ \E t \in LaterReads(now) :
              /\ now' = t
              /\ last' = [op |-> "loadReviewData", ids |-> vocabulary, quality |-> 0,
                          at |-> now, pre |-> RemoteStates(flashcard_reviews),
                          filteredAt |-> t,
                          result |->
                             [totalDueCards |->
                                  Cardinality(DueVocabIds(flashcard_reviews, now)),
                              totalCards |-> Cardinality(vocabulary),
                              dueCards |-> Cardinality(DueVocabIds(flashcardProgress, t)),
                              newCards |-> Cardinality(vocabulary)
                                             - Cardinality(DOMAIN flashcardProgress),
                              accuracy |-> Accuracy(flashcardProgress)]]
        /\ UNCHANGED <<backend, session, user_progress, scenario_cache, flashcard_reviews, flashcard_progress, review_due,
                       ratings, passes, calls>>

\* DeckDetailScreen.loadDeckData, for a deck whose cards are cardsData: the
\* progress the local service holds for them, and what the deck shows.
LoadDeckData(cardsData) ==
    LET flashcardProgress == Restrict(flashcard_progress, cardsData)
        newCards == Cardinality(cardsData \ DOMAIN flashcardProgress)
    IN  /\ backend = "local"
        /\ \E t \in LaterReads(now) :
              LET dueReviewCards ==
                      Cardinality({id \in DOMAIN flashcardProgress :
                                      flashcardProgress[id].nextReviewAt <= t})
                  totalDue == newCards + dueReviewCards
              IN  /\ now' = t
                  /\ last' = [op |-> "loadDeckData", ids |-> cardsData, quality |-> 0,
                              at |-> now, pre |-> flashcard_progress,
                              filteredAt |-> t,
                              result |-> [totalCards |-> Cardinality(cardsData),
                                          dueCards |-> IF cardsData = {} THEN 0
                                                       ELSE totalDue]]
        /\ UNCHANGED <<backend, session, user_progress, scenario_cache, flashcard_reviews, flashcard_progress, review_due,
                       ratings, passes, calls>>

NextReview ==
    \/ Tick
    \/ DayPasses
    \/ \E ids \in SUBSET Items : EnsureFlashcardsExist(ids)
    \/ \E ids \in SUBSET Items : InitializeFlashcards(ids)
    \/ \E id \in RatedItems, q \in Qualities :
          ratings < MaxSessionRatings /\ FlashcardServiceUpdateFlashcard(id, q)
    \/ \E id \in RatedItems, q \in Qualities :
          ratings < MaxSessionRatings /\ UnifiedProgressServiceUpdateFlashcard(id, q)
    \/ \E ids \in SUBSET Items : LoadReviewData(ids)
    \/ \E ids \in SUBSET Items : LoadDeckData(ids)

\* The handlers one at a time from empty stores, over days, with the screens
\* that show the decks.
SpecReview == Init /\ [][NextReview]_vars

\* ------------------------------------------------------- the review session
\* handleRating calls that may await their updateFlashcard at one time.
MaxPending == 2

\* The qualities of the four rating buttons (scenario/[id].tsx 1257-1281).
RatingButtons == {1, 2, 4, 5}

\* The orders [...vocab].sort(() => Math.random() - 0.5) may leave ids in.
Shuffles(ids) ==
    {order \in [1..Cardinality(ids) -> ids] : \A id \in ids : \E i \in DOMAIN order : order[i] = id}

\* nextCard without the test of line 1082.
nextCard_NoGuard(s, index) ==
    [s EXCEPT !.reviewedCards = @ \cup {index},
              !.currentCardIndex = index + 1,
              !.isFlipped = FALSE]

\* nextCard of the render whose currentCardIndex was index.
nextCard(s, index) ==
    IF index < Len(s.vocabulary) - 1
    THEN [s EXCEPT !.reviewedCards = @ \cup {index},
                   !.currentCardIndex = index + 1,
                   !.isFlipped = FALSE]
    ELSE s

\* previousCard of the render whose currentCardIndex was index.
previousCard(s, index) ==
    IF index > 0
    THEN [s EXCEPT !.currentCardIndex = index - 1, !.isFlipped = FALSE]
    ELSE s

\* The card view is rendered: loading is over and there is a card (1128-1159).
CardShown == ~session.loading /\ session.vocabulary # <<>>

\* The effect of ReviewSessionScreen mounting: loadVocabulary for a deck or a
\* level whose words are vocabularyIds, and the shuffled due words it sets.
MountReviewSession(vocabularyIds) ==
    LET newIds == vocabularyIds \ DOMAIN flashcard_reviews
        rows == [id \in (DOMAIN flashcard_reviews) \cup newIds |->
                    IF id \in newIds THEN NewRow(now, now) ELSE flashcard_reviews[id]]
        allFlashcards == [id \in vocabularyIds |-> rows[id]]
    IN  /\ backend = "remote"
        /\ session.loading
        /\ flashcard_reviews' = rows
        /\ \E t \in LaterReads(now) :
              /\ now' = t
              /\ last' = [op |-> "loadVocabulary", ids |-> vocabularyIds, quality |-> 0,
                          at |-> now, pre |-> RemoteStates(flashcard_reviews),
                          result |-> DueVocabIds(allFlashcards, t), filteredAt |-> t]
              /\ \E shuffled \in Shuffles(DueVocabIds(allFlashcards, t)) :
                    session' = [session EXCEPT !.vocabulary = shuffled,
                                               !.loading = FALSE]
        /\ passes' = [id \in Items |-> IF id \in newIds THEN 0 ELSE passes[id]]
        /\ UNCHANGED <<backend, user_progress, scenario_cache, flashcard_progress,
                       review_due, ratings, calls>>

\* A press on the card.
FlipCard ==
    /\ CardShown
    /\ session' = [session EXCEPT !.isFlipped = ~@]
    /\ last' = [op |-> "flipCard", ids |-> {}, quality |-> 0, at |-> now,
                pre |-> RemoteStates(flashcard_reviews), result |-> "ok",
                index |-> session.currentCardIndex]
    /\ UNCHANGED <<backend, now, user_progress, scenario_cache, flashcard_reviews,
                   flashcard_progress, review_due, ratings, passes, calls>>

\* A press on Next (line 1304; the button is disabled on the last card).
PressNext ==
    /\ CardShown
    /\ session.currentCardIndex # Len(session.vocabulary) - 1
    /\ session' = nextCard(session, session.currentCardIndex)
    /\ last' = [op |-> "nextCard", ids |-> {}, quality |-> 0, at |-> now,
                pre |-> RemoteStates(flashcard_reviews), result |-> "ok",
                index |-> session.currentCardIndex]
    /\ UNCHANGED <<backend, now, user_progress, scenario_cache, flashcard_reviews,
                   flashcard_progress, review_due, ratings, passes, calls>>

\* A press on Previous (line 1294; the button is disabled on the first card).
PressPrevious ==
    /\ CardShown
    /\ session.currentCardIndex # 0
    /\ session' = previousCard(session, session.currentCardIndex)
    /\ last' = [op |-> "previousCard", ids |-> {}, quality |-> 0, at |-> now,
                pre |-> RemoteStates(flashcard_reviews), result |-> "ok",
                index |-> session.currentCardIndex]
    /\ UNCHANGED <<backend, now, user_progress, scenario_cache, flashcard_reviews,
                   flashcard_progress, review_due, ratings, passes, calls>>

\* A press on a rating button: handleRating(quality) up to its await.  The call
\* keeps the currentCardIndex and the nextCard of the render it was made in.
HandleRating(quality) ==
    /\ CardShown
    /\ session.isFlipped
    /\ Len(session.pending) < MaxPending
    /\ ratings < MaxSessionRatings
    /\ ratings' = ratings + 1
    /\ session' = [session EXCEPT !.pending =
                      Append(@, [index |-> session.currentCardIndex,
                                 quality |-> quality])]
    /\ last' = [op |-> "pressRating", ids |-> {}, quality |-> quality, at |-> now,
                pre |-> RemoteStates(flashcard_reviews), result |-> "pending",
                index |-> session.currentCardIndex]
    /\ UNCHANGED <<backend, now, user_progress, scenario_cache, flashcard_reviews,
                   flashcard_progress, review_due, passes, calls>>

\* The updateFlashcard of the i-th waiting handleRating settles, and the rest of
\* handleRating runs: nextCard() when it resolved, the catch when it rejected.
HandleRatingResumes(i, selectOk, upsertOk) ==
    LET call == session.pending[i]
        vocabularyId == session.vocabulary[call.index + 1]
        has == selectOk /\ vocabularyId \in DOMAIN flashcard_reviews
        current == IF has THEN flashcard_reviews[vocabularyId] ELSE NewRow(0, 0)
        row == FlashcardService_row(has, current, call.quality, now)
        rest == [session EXCEPT !.pending =
                    [k \in 1..(Len(@) - 1) |-> IF k < i THEN @[k] ELSE @[k + 1]]]
    IN  /\ flashcard_reviews' =
              IF upsertOk THEN Upsert(flashcard_reviews, vocabularyId, row)
              ELSE flashcard_reviews
        /\ session' = IF upsertOk THEN nextCard(rest, call.index) ELSE rest
        /\ last' = [op |-> "handleRating", ids |-> {vocabularyId},
                    quality |-> call.quality, at |-> now,
                    pre |-> RemoteStates(flashcard_reviews),
                    result |-> IF upsertOk THEN "ok" ELSE "error",
                    index |-> session.currentCardIndex, rendered |-> call.index]
        /\ passes' = IF upsertOk
                     THEN [passes EXCEPT ![vocabularyId] =
                              IF call.quality < 3 THEN 0 ELSE (IF has THEN @ ELSE 0) + 1]
                     ELSE passes
        /\ UNCHANGED <<backend, now, user_progress, scenario_cache, flashcard_progress,
                       review_due, ratings, calls>>

NextScreen ==
    \/ Tick
    \/ \E ids \in SUBSET Items : MountReviewSession(ids)
    \/ FlipCard
    \/ PressNext
    \/ PressPrevious
    \/ \E q \in RatingButtons : HandleRating(q)
    \/ \E i \in DOMAIN session.pending, selectOk, upsertOk \in BOOLEAN :
          HandleRatingResumes(i, selectOk, upsertOk)

\* One review session from its mount, over empty tables.
SpecScreen == Init /\ [][NextScreen]_vars

\* --------------------------------------------------------------- the streak
\* Days the clock of SpecStreak runs over.
MaxStreakDays == 4

\* The lessons completeLesson is called for (`${level}_${unit}_${lesson}`).
Lessons == {"1_1_1", "1_1_2"}

\* new Date().toISOString().split('T')[0]: the UTC day the time t is in.
ISODate(t) == t \div TicksPerDay

\* new Date(date).getTime() of a 'YYYY-MM-DD' string: the first instant of the day.
DateTime(date) == date * TicksPerDay

\* getProgress() (lines 81-117) with every getItem resolving.
GetProgress ==
    [completedLessons |-> user_progress.COMPLETED_LESSONS,
     streak |-> IF user_progress.STREAK = NoItem THEN 0 ELSE user_progress.STREAK,
     lastStudyDate |-> user_progress.LAST_STUDY_DATE]

\* updateStreak with the streak kept on a consecutive day.
UnifiedProgressService_streak_Keep(stored, progress, t) ==
    LET today == ISODate(t)
        lastStudy == progress.lastStudyDate
        diffDays == (DateTime(today) - DateTime(lastStudy)) \div TicksPerDay
    IN  IF lastStudy = NoItem
        THEN [stored EXCEPT !.STREAK = 1, !.LAST_STUDY_DATE = today]
        ELSE IF diffDays = 0
        THEN stored
        ELSE IF diffDays = 1
        THEN [stored EXCEPT !.STREAK = progress.streak, !.LAST_STUDY_DATE = today]
        ELSE [stored EXCEPT !.STREAK = 1, !.LAST_STUDY_DATE = today]

\* What updateStreak (lines 193-233) leaves in AsyncStorage, from the stored
\* items, the progress getProgress returned and the time t of its new Date().
UnifiedProgressService_streak(stored, progress, t) ==
    LET today == ISODate(t)
        lastStudy == progress.lastStudyDate
        diffDays == (DateTime(today) - DateTime(lastStudy)) \div TicksPerDay
    IN  IF lastStudy = NoItem
        THEN [stored EXCEPT !.STREAK = 1, !.LAST_STUDY_DATE = today]
        ELSE IF diffDays = 0
        THEN stored
        ELSE IF diffDays = 1
        THEN [stored EXCEPT !.STREAK = progress.streak + 1, !.LAST_STUDY_DATE = today]
        ELSE [stored EXCEPT !.STREAK = 1, !.LAST_STUDY_DATE = today]

\* The clock of SpecStreak.
TimePasses ==
    /\ now < MaxStreakDays * TicksPerDay
    /\ now' = now + 1
    /\ UNCHANGED <<backend, session, user_progress, scenario_cache, flashcard_reviews,
                   flashcard_progress, review_due, ratings, last, passes, calls>>

\* The readings of the clock a call that starts now may make later.
StreakReads == now..Min(now + 1, MaxStreakDays * TicksPerDay)

\* UnifiedProgressService.updateStreak().
UpdateStreak ==
    /\ backend = "local"
    /\ \E t \in StreakReads :
          /\ now' = t
          /\ user_progress' = UnifiedProgressService_streak(user_progress, GetProgress, t)
          /\ last' = [op |-> "updateStreak", ids |-> {}, quality |-> 0, at |-> now,
                      pre |-> flashcard_progress, result |-> "ok",
                      stored |-> user_progress, readAt |-> t]
    /\ UNCHANGED <<backend, session, scenario_cache, flashcard_reviews,
                   flashcard_progress, review_due, ratings, passes, calls>>

\* UnifiedProgressService.completeLesson(level, unit, lesson), lessonId being
\* the three joined.
CompleteLesson(lessonId) ==
    LET completed == [user_progress EXCEPT !.COMPLETED_LESSONS = @ \cup {lessonId}]
    IN  /\ backend = "local"
        /\ \E t \in StreakReads :
              /\ now' = t
              /\ user_progress' =
                    UnifiedProgressService_streak(completed, GetProgress, t)
              /\ last' = [op |-> "completeLesson", ids |-> {}, quality |-> 0, at |-> now,
                          pre |-> flashcard_progress, result |-> "ok",
                          stored |-> user_progress, readAt |-> t, lessonId |-> lessonId]
        /\ UNCHANGED <<backend, session, scenario_cache, flashcard_reviews,
                       flashcard_progress, review_due, ratings, passes, calls>>

NextStreak ==
    \/ TimePasses
    \/ UpdateStreak
    \/ \E lessonId \in Lessons : CompleteLesson(lessonId)
    \/ ResetProgress

\* The progress handlers of the local service one at a time, over days.
SpecStreak == Init /\ [][NextStreak]_vars

\* ------------------------------------------------------- the scenario cache
\* The clock of SpecCache counts minutes, up to MaxCacheNow.
MaxCacheNow == 6

\* getAllScenarios calls of one behaviour, and those awaiting at one time.
MaxCacheCalls == 3
MaxFetching == 2

\* Updates of the scenarios table.
MaxScenarioUpdates == 1

\* CACHE_DURATION = 5 * 60 * 1000 ms (line 36), in minutes.
CACHE_DURATION == 5

\* A sequence without its i-th element.
Without(seq, i) == [k \in 1..(Len(seq) - 1) |-> IF k < i THEN seq[k] ELSE seq[k + 1]]

\* scenariosCache && (now - cacheTimestamp) < CACHE_DURATION (line 46).
CacheValid(cache, t) ==
    cache.scenariosCache # NoItem /\ (t - cache.cacheTimestamp) < CACHE_DURATION

\* A minute passes.
MinutePasses ==
    /\ now < MaxCacheNow
    /\ now' = now + 1
    /\ UNCHANGED <<backend, session, user_progress, scenario_cache, flashcard_reviews,
                   flashcard_progress, review_due, ratings, last, passes, calls>>

\* The scenarios table is changed by someone.
ScenariosUpdated ==
    /\ scenario_cache.scenarios < MaxScenarioUpdates
    /\ scenario_cache' = [scenario_cache EXCEPT !.scenarios = @ + 1]
    /\ last' = [op |-> "scenariosUpdated", ids |-> {}, quality |-> 0, at |-> now,
                pre |-> NoStates, result |-> "ok"]
    /\ UNCHANGED <<backend, now, session, user_progress, flashcard_reviews,
                   flashcard_progress, review_due, ratings, passes, calls>>

\* ScenarioService.getAllScenarios() to its return of line 47 or to its await.
GetAllScenarios ==
    LET hit == CacheValid(scenario_cache, now)
    IN  /\ scenario_cache.started < MaxCacheCalls
        /\ Len(scenario_cache.inflight) < MaxFetching
        /\ scenario_cache' =
              [scenario_cache EXCEPT
                  !.started = @ + 1,
                  !.cleared = FALSE,
                  !.inflight = IF hit THEN @
                               ELSE Append(@, [now |-> now, pc |-> "select", data |-> NoItem])]
        /\ last' = [op |-> "getAllScenarios", ids |-> {}, quality |-> 0, at |-> now,
                    pre |-> NoStates,
                    result |-> IF hit THEN scenario_cache.scenariosCache ELSE NoItem,
                    query |-> ~hit, cache |-> scenario_cache]
        /\ UNCHANGED <<backend, now, session, user_progress, flashcard_reviews,
                       flashcard_progress, review_due, ratings, passes, calls>>

\* The select of lines 50-53 of the i-th waiting call is answered: with the
\* rows of the table, or with an error.
SelectScenarios(i, ok) ==
    /\ i \in DOMAIN scenario_cache.inflight
    /\ scenario_cache.inflight[i].pc = "select"
    /\ scenario_cache' =
          [scenario_cache EXCEPT
              !.inflight[i] = [@ EXCEPT !.pc = IF ok THEN "update" ELSE "throw",
                                        !.data = IF ok THEN scenario_cache.scenarios
                                                 ELSE NoItem]]
    /\ last' = [op |-> "select", ids |-> {}, quality |-> 0, at |-> now,
                pre |-> NoStates, result |-> IF ok THEN "ok" ELSE "error"]
    /\ UNCHANGED <<backend, now, session, user_progress, flashcard_reviews,
                   flashcard_progress, review_due, ratings, passes, calls>>

\* The i-th waiting getAllScenarios resumes after its await: lines 55-61.
GetAllScenariosResumes(i) ==
    LET call == scenario_cache.inflight[i]
    IN  /\ i \in DOMAIN scenario_cache.inflight
        /\ call.pc \in {"update", "throw"}
        /\ scenario_cache' =
              IF call.pc = "throw"
              THEN [scenario_cache EXCEPT !.inflight = Without(@, i)]
              ELSE [scenario_cache EXCEPT !.inflight = Without(@, i),
                                          !.scenariosCache = call.data,
                                          !.cacheTimestamp = call.now,
                                          !.fetched = @ \cup {call.now}]
        /\ last' = [op |-> "getAllScenariosResumes", ids |-> {}, quality |-> 0,
                    at |-> now, pre |-> NoStates,
                    result |-> call.data, threw |-> call.pc = "throw",
                    cache |-> scenario_cache]
        /\ UNCHANGED <<backend, now, session, user_progress, flashcard_reviews,
                       flashcard_progress, review_due, ratings, passes, calls>>

\* ScenarioService.clearCache().
ClearCache ==
    /\ scenario_cache' = [scenario_cache EXCEPT !.scenariosCache = NoItem,
                                                !.cacheTimestamp = 0,
                                                !.fetched = {},
                                                !.cleared = TRUE]
    /\ last' = [op |-> "clearCache", ids |-> {}, quality |-> 0, at |-> now,
                pre |-> NoStates, result |-> "ok"]
    /\ UNCHANGED <<backend, now, session, user_progress, flashcard_reviews,
                   flashcard_progress, review_due, ratings, passes, calls>>

NextCache ==
    \/ MinutePasses
    \/ ScenariosUpdated
    \/ GetAllScenarios
    \/ \E i \in DOMAIN scenario_cache.inflight, ok \in BOOLEAN : SelectScenarios(i, ok)
    \/ \E i \in DOMAIN scenario_cache.inflight : GetAllScenariosResumes(i)
    \/ ClearCache

\* The calls of ScenarioService, each running to its await and from it.
SpecCache == Init /\ [][NextCache]_vars

\* ------------------------------------------------- storage calls that fail
\* FlashcardService.updateFlashcard(userId, vocabularyId, quality) when its
\* storage calls may fail: selectOk, the select of lines 385-390 succeeds;
\* upsertOk, the upsert of lines 417-431 succeeds.  The error of the select is
\* not read: a failed select leaves current undefined, as a select that finds
\* no row does.  The error of the upsert is thrown.
FlashcardServiceUpdateFlashcardIO(vocabularyId, quality, selectOk, upsertOk) ==
    LET has == selectOk /\ vocabularyId \in DOMAIN flashcard_reviews
        current == IF has THEN flashcard_reviews[vocabularyId] ELSE NewRow(0, 0)
        row == FlashcardService_row(has, current, quality, now)
    IN  /\ backend = "remote"
        /\ ratings < MaxSessionRatings
        /\ ratings' = ratings + 1
        /\ flashcard_reviews' =
              IF upsertOk THEN Upsert(flashcard_reviews, vocabularyId, row)
              ELSE flashcard_reviews
        /\ last' = [op |-> "updateFlashcard", ids |-> {vocabularyId},
                    quality |-> quality, at |-> now,
                    pre |-> RemoteStates(flashcard_reviews),
                    result |-> IF upsertOk THEN "ok" ELSE "error",
                    readOk |-> selectOk, writeOk |-> upsertOk]
        /\ passes' = IF upsertOk
                     THEN [passes EXCEPT ![vocabularyId] =
                              IF quality < 3 THEN 0 ELSE (IF has THEN @ ELSE 0) + 1]
                     ELSE passes
        /\ UNCHANGED <<backend, session, user_progress, scenario_cache, now, flashcard_progress, review_due, calls>>

\* UnifiedProgressService.updateFlashcard(vocabularyId, quality) when its
\* storage calls may fail: getItemOk, the getItem of getAllFlashcardProgress
\* (a failure is caught there and an empty Map returned); setItemOk, the setItem
\* of saveFlashcardProgress (a failure is caught there and logged); statsOk and
\* dueOk, the getItem and the setItem of recalculateDueCount (caught likewise).
\* The handler returns nothing and throws nothing.
UnifiedProgressServiceUpdateFlashcardIO(vocabularyId, quality, getItemOk, setItemOk, statsOk, dueOk) ==
    LET allProgress == IF getItemOk THEN flashcard_progress ELSE NoStates
        has == vocabularyId \in DOMAIN allProgress
        current == IF has THEN allProgress[vocabularyId] ELSE NewProgress(0)
        entry == UnifiedProgressService_entry(has, current, quality, now)
    IN  /\ backend = "local"
        /\ ratings < MaxSessionRatings
        /\ ratings' = ratings + 1
        /\ flashcard_progress' =
              IF setItemOk THEN Upsert(allProgress, vocabularyId, entry)
              ELSE flashcard_progress
        /\ \E t \in LaterReads(now) :
              /\ review_due' =
                    IF dueOk
                    THEN DueCount(IF statsOk THEN flashcard_progress' ELSE NoStates, t)
                    ELSE review_due
              /\ now' = t
        /\ last' = [op |-> "updateFlashcard", ids |-> {vocabularyId},
                    quality |-> quality, at |-> now,
                    pre |-> flashcard_progress, result |-> "ok",
                    readOk |-> getItemOk, writeOk |-> setItemOk]
        /\ passes' = IF setItemOk
                     THEN [id \in Items |->
                              IF id = vocabularyId
                              THEN IF quality < 3 THEN 0
                                   ELSE (IF has THEN passes[id] ELSE 0) + 1
                              ELSE IF id \in DOMAIN allProgress THEN passes[id] ELSE 0]
                     ELSE passes
        /\ UNCHANGED <<backend, session, user_progress, scenario_cache, flashcard_reviews, calls>>

\* UnifiedProgressService.initializeFlashcards(vocabularyIds) when its storage
\* calls may fail, each failure caught where UnifiedProgressServiceUpdateFlashcardIO
\* says.
InitializeFlashcardsIO(vocabularyIds, getItemOk, setItemOk, statsOk, dueOk) ==
    LET allProgress == IF getItemOk THEN flashcard_progress ELSE NoStates
    IN  /\ backend = "local"
        /\ flashcard_progress' =
              IF setItemOk
              THEN [id \in (DOMAIN allProgress) \cup vocabularyIds |->
                       IF id \in DOMAIN allProgress THEN allProgress[id]
                       ELSE NewProgress(now)]
              ELSE flashcard_progress
        /\ \E t \in LaterReads(now) :
              /\ review_due' =
                    IF dueOk
                    THEN DueCount(IF statsOk THEN flashcard_progress' ELSE NoStates, t)
                    ELSE review_due
              /\ now' = t
        /\ last' = [op |-> "initializeFlashcards", ids |-> vocabularyIds,
                    quality |-> 0, at |-> now,
                    pre |-> flashcard_progress, result |-> "ok",
                    readOk |-> getItemOk, writeOk |-> setItemOk]
        /\ passes' = IF setItemOk
                     THEN [id \in Items |->
                              IF id \in DOMAIN allProgress THEN passes[id] ELSE 0]
                     ELSE passes
        /\ UNCHANGED <<backend, session, user_progress, scenario_cache, flashcard_reviews, ratings, calls>>

NextIO ==
    \/ Tick
    \/ \E ids \in SUBSET Items : EnsureFlashcardsExist(ids)
    \/ \E ids \in SUBSET Items, getItemOk, setItemOk, statsOk, dueOk \in BOOLEAN :
          InitializeFlashcardsIO(ids, getItemOk, setItemOk, statsOk, dueOk)
    \/ \E id \in RatedItems, q \in Qualities, selectOk, upsertOk \in BOOLEAN :
          FlashcardServiceUpdateFlashcardIO(id, q, selectOk, upsertOk)
    \/ \E id \in RatedItems, q \in Qualities,
           getItemOk, setItemOk, statsOk, dueOk \in BOOLEAN :
          UnifiedProgressServiceUpdateFlashcardIO(id, q, getItemOk, setItemOk,
                                                  statsOk, dueOk)

\* The handlers one at a time from empty stores, any storage call of an
\* updateFlashcard or of the local initializeFlashcards failing or not.
SpecIO == Init /\ [][NextIO]_vars

\* ------------------------------------------------ handler calls in flight
\* Every handler is an async function: between two of its awaits other calls
\* run.  A call goes through its storage calls one at a time, holding what it
\* has read; pc names the storage call it is to make next.

\* A call that has just been made: pre, the ReviewStates at that time.
NewCall(op, ids, quality, pc) ==
    [op |-> op, ids |-> ids, quality |-> quality, pc |-> pc, pre |-> States,
     held |-> NoStates, wrote |-> NoStates, due |-> 0, result |-> "pending"]

StartFlashcardServiceUpdateFlashcard(vocabularyId, quality) ==
    /\ backend = "remote"
    /\ Len(calls) < MaxCalls
    /\ calls' = Append(calls, NewCall("updateFlashcard", {vocabularyId}, quality, "select"))
    /\ UNCHANGED <<backend, session, user_progress, scenario_cache, now, flashcard_reviews, flashcard_progress, review_due,
                   ratings, last, passes>>

StartEnsureFlashcardsExist(vocabularyIds) ==
    /\ backend = "remote"
    /\ Len(calls) < MaxCalls
    /\ calls' = Append(calls, NewCall("ensureFlashcardsExist", vocabularyIds, 0, "select"))
    /\ UNCHANGED <<backend, session, user_progress, scenario_cache, now, flashcard_reviews, flashcard_progress, review_due,
                   ratings, last, passes>>

StartUnifiedProgressServiceUpdateFlashcard(vocabularyId, quality) ==
    /\ backend = "local"
    /\ Len(calls) < MaxCalls
    /\ calls' = Append(calls, NewCall("updateFlashcard", {vocabularyId}, quality, "getItem"))
    /\ UNCHANGED <<backend, session, user_progress, scenario_cache, now, flashcard_reviews, flashcard_progress, review_due,
                   ratings, last, passes>>

StartInitializeFlashcards(vocabularyIds) ==
    /\ backend = "local"
    /\ Len(calls) < MaxCalls
    /\ calls' = Append(calls, NewCall("initializeFlashcards", vocabularyIds, 0, "getItem"))
    /\ UNCHANGED <<backend, session, user_progress, scenario_cache, now, flashcard_reviews, flashcard_progress, review_due,
                   ratings, last, passes>>

\* The select of updateFlashcard (database.ts 385-390) or of
\* ensureFlashcardsExist (295-299), which returns when no id is new (304).
Select(i) ==
    LET c == calls[i]
        held == Restrict(flashcard_reviews, c.ids)
        over == c.op = "ensureFlashcardsExist" /\ c.ids \subseteq DOMAIN held
    IN  /\ c.pc = "select"
        /\ calls' = [calls EXCEPT ![i] =
                        [c EXCEPT !.held = held,
                                  !.pc = IF over THEN "done"
                                         ELSE IF c.op = "updateFlashcard" THEN "upsert"
                                         ELSE "insert",
                                  !.result = IF over THEN "ok" ELSE "pending"]]
        /\ UNCHANGED <<backend, session, user_progress, scenario_cache, now, flashcard_reviews, flashcard_progress, review_due,
                       ratings, last, passes>>

\* The upsert of updateFlashcard (database.ts 414-434), of the row computed from
\* what the select returned.
UpsertRow(i) ==
    LET c == calls[i]
        vocabularyId == CHOOSE id \in c.ids : TRUE
        has == vocabularyId \in DOMAIN c.held
        current == IF has THEN c.held[vocabularyId] ELSE NewRow(0, 0)
        row == FlashcardService_row(has, current, c.quality, now)
    IN  /\ c.pc = "upsert"
        /\ flashcard_reviews' = Upsert(flashcard_reviews, vocabularyId, row)
        /\ calls' = [calls EXCEPT ![i] =
                        [c EXCEPT !.wrote = [id \in c.ids |-> ReviewStateOf(row)],
                                  !.pc = "done", !.result = "ok"]]
        /\ UNCHANGED <<backend, session, user_progress, scenario_cache, now, flashcard_progress, review_due, ratings, last,
                       passes>>

\* The insert of ensureFlashcardsExist (database.ts 307-322) of a row for every
\* id the select did not return.  (user_id, vocabulary_id) is unique in
\* flashcard_reviews, the conflict target updateFlashcard names (428): an insert
\* with a row for a pair that is there by now is rejected as a whole, and the
\* error thrown.
Insert(i) ==
    LET c == calls[i]
        newIds == c.ids \ DOMAIN c.held
        conflict == newIds \cap DOMAIN flashcard_reviews # {}
    IN  /\ c.pc = "insert"
        /\ flashcard_reviews' =
              IF conflict THEN flashcard_reviews
              ELSE [id \in (DOMAIN flashcard_reviews) \cup newIds |->
                       IF id \in newIds THEN NewRow(now, now) ELSE flashcard_reviews[id]]
        /\ calls' = [calls EXCEPT ![i] =
                        [c EXCEPT !.pc = "done",
                                  !.result = IF conflict THEN "error" ELSE "ok"]]
        /\ UNCHANGED <<backend, session, user_progress, scenario_cache, now, flashcard_progress, review_due, ratings, last,
                       passes>>

\* getAllFlashcardProgress of updateFlashcard (progress-service.ts 278) or of
\* initializeFlashcards (329): the whole map.
GetItem(i) ==
    LET c == calls[i]
    IN  /\ c.pc = "getItem"
        /\ calls' = [calls EXCEPT ![i] = [c EXCEPT !.held = flashcard_progress,
                                                   !.pc = "setItem"]]
        /\ UNCHANGED <<backend, session, user_progress, scenario_cache, now, flashcard_reviews, flashcard_progress, review_due,
                       ratings, last, passes>>

\* saveFlashcardProgress of updateFlashcard (progress-service.ts 303-315) or of
\* initializeFlashcards (330-345): the map that was read, with the entry of the
\* call set in it, is written as a whole.
SetItem(i) ==
    LET c == calls[i]
        allProgress == c.held
        vocabularyId == CHOOSE id \in c.ids : TRUE
        has == vocabularyId \in DOMAIN allProgress
        current == IF has THEN allProgress[vocabularyId] ELSE NewProgress(0)
        entry == UnifiedProgressService_entry(has, current, c.quality, now)
        rated == c.op = "updateFlashcard"
    IN  /\ c.pc = "setItem"
        /\ flashcard_progress' =
              IF rated THEN Upsert(allProgress, vocabularyId, entry)
              ELSE [id \in (DOMAIN allProgress) \cup c.ids |->
                       IF id \in DOMAIN allProgress THEN allProgress[id]
                       ELSE NewProgress(now)]
        /\ calls' = [calls EXCEPT ![i] =
                        [c EXCEPT !.wrote = IF rated THEN [id \in c.ids |-> entry]
                                            ELSE NoStates,
                                  !.pc = "getFlashcardStats"]]
        /\ UNCHANGED <<backend, session, user_progress, scenario_cache, now, flashcard_reviews, review_due, ratings, last,
                       passes>>

\* getFlashcardStats of recalculateDueCount (progress-service.ts 396, 355-362).
GetStats(i) ==
    LET c == calls[i]
    IN  /\ c.pc = "getFlashcardStats"
        /\ calls' = [calls EXCEPT ![i] =
                        [c EXCEPT !.due = DueCount(flashcard_progress, now),
                                  !.pc = "updateReviewDue"]]
        /\ UNCHANGED <<backend, session, user_progress, scenario_cache, now, flashcard_reviews, flashcard_progress, review_due,
                       ratings, last, passes>>

\* updateReviewDue of recalculateDueCount (progress-service.ts 397, 169-175).
UpdateReviewDue(i) ==
    LET c == calls[i]
    IN  /\ c.pc = "updateReviewDue"
        /\ review_due' = c.due
        /\ calls' = [calls EXCEPT ![i] = [c EXCEPT !.pc = "done", !.result = "ok"]]
        /\ UNCHANGED <<backend, session, user_progress, scenario_cache, now, flashcard_reviews, flashcard_progress, ratings,
                       last, passes>>

\* Any part of the catalog has been initialised at time 0, and no call is made yet.
InitRace ==
    /\ backend \in {"remote", "local"}
    /\ now = 0
    /\ \E ids \in SUBSET Items :
          /\ flashcard_reviews =
                IF backend = "remote" THEN [id \in ids |-> NewRow(0, 0)] ELSE NoStates
          /\ flashcard_progress =
                IF backend = "local" THEN [id \in ids |-> NewProgress(0)] ELSE NoStates
          /\ review_due = IF backend = "local" THEN Cardinality(ids) ELSE 0
    /\ ratings = 0
    /\ last = [op |-> "none", ids |-> {}, quality |-> 0, at |-> 0,
               pre |-> NoStates, result |-> "ok"]
    /\ passes = [id \in Items |-> 0]
    /\ calls = <<>>
    /\ session = NoSession
    /\ user_progress = NoProgress
    /\ scenario_cache = NoCache

NextRace ==
    \/ Tick
    \/ \E id \in Items, q \in Qualities : StartFlashcardServiceUpdateFlashcard(id, q)
    \/ \E ids \in SUBSET Items : StartEnsureFlashcardsExist(ids)
    \/ \E id \in Items, q \in Qualities : StartUnifiedProgressServiceUpdateFlashcard(id, q)
    \/ \E ids \in SUBSET Items : StartInitializeFlashcards(ids)
    \/ \E i \in 1..Len(calls) : Select(i)
    \/ \E i \in 1..Len(calls) : UpsertRow(i)
    \/ \E i \in 1..Len(calls) : Insert(i)
    \/ \E i \in 1..Len(calls) : GetItem(i)
    \/ \E i \in 1..Len(calls) : SetItem(i)
    \/ \E i \in 1..Len(calls) : GetStats(i)
    \/ \E i \in 1..Len(calls) : UpdateReviewDue(i)

\* Up to MaxCalls handler calls, each started at any time and taking its
\* storage calls in its own order, interleaved in any way with the others.
SpecRace == InitRace /\ [][NextRace]_vars

\* -------------------------------------------------------------- properties
\* What the last handler was, what it found and what it left.
Rated == last.op = "updateFlashcard"
LastItem == CHOOSE id \in last.ids : TRUE
RatedExisting == Rated /\ LastItem \in DOMAIN last.pre
Before == last.pre[LastItem]
After == States[LastItem]
Initialized == last.op \in {"ensureFlashcardsExist", "initializeFlashcardsForLesson",
                            "initializeFlashcards"}

\* The change of the ease factor per quality, in hundredths, as the spec lists it.
EaseChange(q) ==
    CASE q = 5 -> 10 [] q = 4 -> 0 [] q = 3 -> -14
      [] q = 2 -> -32 [] q = 1 -> -54 [] q = 0 -> -80

\* i is x / 100 rounded to the nearest integer (a tie may go either way).
IsNearest(i, x) == 100 * i - 50 <= x /\ x <= 100 * i + 50

\* The scheduling part of a ReviewState.
Card(s) == <<s.easeFactor, s.intervalDays, s.repetitions>>

\* C1. Ease floor: every stored ReviewState, of either service, after any
\* initialisations and any ratings of quality 0..5, has easeFactor >= 1.3.
C1_EaseFloor == \A id \in DOMAIN States : States[id].easeFactor >= 130

\* C1 witness: a rating that would have taken the ease factor below 1.3 has run
\* and left it at 1.3.
C1_Witness ==
    /\ RatedExisting
    /\ last.quality \in Qualities
    /\ Before.easeFactor + EaseChange(last.quality) < 130
    /\ After.easeFactor = 130

\* C2. Lapse reset: updateFlashcard of a stored ReviewState with quality 0, 1 or 2
\* leaves repetitions = 0 and intervalDays = 1, whatever they were.
C2_LapseReset ==
    (RatedExisting /\ last.quality \in 0..2)
        => (After.repetitions = 0 /\ After.intervalDays = 1)

\* C2 witness: a card with three repetitions and a 15 day interval was rated 0.
C2_Witness ==
    /\ RatedExisting
    /\ last.quality = 0
    /\ Before.repetitions = 3
    /\ Before.intervalDays = 15
    /\ After.repetitions = 0
    /\ After.intervalDays = 1

\* C3. Interval ladder: rated 4, a freshly initialised state (2.5, 0, 0) becomes
\* (2.5, 1, 1), that one becomes (2.5, 6, 2), and that one gets repetitions 3 and
\* the interval round(6 x EF) = 15: three ratings of 4 in a row from a fresh state
\* go through exactly these.
C3_IntervalLadder ==
    (RatedExisting /\ last.quality = 4) =>
        /\ Card(Before) = <<250, 0, 0>> => Card(After) = <<250, 1, 1>>
        /\ Card(Before) = <<250, 1, 1>> => Card(After) = <<250, 6, 2>>
        /\ Card(Before) = <<250, 6, 2>> =>
              /\ After.repetitions = 3
              /\ IsNearest(After.intervalDays, 6 * After.easeFactor)
              /\ After.intervalDays = 15

\* C3 witness: the third rung, reached from the second.
C3_Witness ==
    /\ RatedExisting
    /\ last.quality = 4
    /\ ratings >= 3
    /\ Card(Before) = <<250, 6, 2>>
    /\ Card(After) = <<250, 15, 3>>

\* C4. Ease update: updateFlashcard of a stored ReviewState with quality q in 0..5
\* sets easeFactor to max(1.3, EF + change(q)), the change being +0.10, 0, -0.14,
\* -0.32, -0.54, -0.80 for q = 5..0; and (repetitions 3, interval 15, ease 2.6)
\* rated 1 becomes (repetitions 0, interval 1, ease 2.06).
C4_EaseUpdate ==
    (RatedExisting /\ last.quality \in Qualities) =>
        /\ After.easeFactor = Max(130, Before.easeFactor + EaseChange(last.quality))
        /\ (Card(Before) = <<260, 15, 3>> /\ last.quality = 1)
              => Card(After) = <<206, 1, 0>>

\* C4 witness: scenario B has run.
C4_Witness ==
    /\ RatedExisting
    /\ last.quality = 1
    /\ Card(Before) = <<260, 15, 3>>
    /\ Card(After) = <<206, 1, 0>>

\* C5. Interval growth: after a passing rating (quality 3..5) that leaves three
\* repetitions or more, intervalDays is the previous intervalDays times the
\* updated ease factor, rounded to the nearest integer; and ratings of 4 take a
\* fresh card through the intervals 1, 6, 15, 38 with the ease factor staying 2.5.
C5_IntervalGrowth ==
    (RatedExisting /\ last.quality \in 3..5) =>
        /\ After.repetitions >= 3
              => IsNearest(After.intervalDays, Before.intervalDays * After.easeFactor)
        /\ last.quality = 4 =>
              /\ Card(Before) = <<250, 0, 0>> => Card(After) = <<250, 1, 1>>
              /\ Card(Before) = <<250, 1, 1>> => Card(After) = <<250, 6, 2>>
              /\ Card(Before) = <<250, 6, 2>> => Card(After) = <<250, 15, 3>>
              /\ Card(Before) = <<250, 15, 3>> => Card(After) = <<250, 38, 4>>

\* C5 witness: the fourth rating of 4 in a row has given the interval 38.
C5_Witness ==
    /\ RatedExisting
    /\ last.quality = 4
    /\ ratings = 4
    /\ Card(Before) = <<250, 15, 3>>
    /\ Card(After) = <<250, 38, 4>>

\* C6. In every stored ReviewState nextReviewAt is lastReviewedAt plus
\* intervalDays days, and updateFlashcard leaves lastReviewedAt at the time of
\* the rating.
C6_NextReviewAt ==
    /\ \A id \in DOMAIN States :
          States[id].nextReviewAt =
              States[id].lastReviewedAt + States[id].intervalDays * TicksPerDay
    /\ Rated => After.lastReviewedAt = last.at

\* C7. updateFlashcard for an item without a ReviewState fails and creates no
\* ReviewState for it.
C7_NotInitialized ==
    (Rated /\ LastItem \notin DOMAIN last.pre)
        => (last.result = "error" /\ LastItem \notin DOMAIN States)

\* C8. updateFlashcard with a quality outside 0..5 is rejected and persists
\* nothing: the stored ReviewStates are what they were before the call.
C8_InvalidQuality ==
    (Rated /\ last.quality \notin Qualities)
        => (last.result = "error" /\ States = last.pre)

\* C9. An initialising handler creates, for every id it is given that had no
\* ReviewState, the state (2.5, 0, 0) with lastReviewedAt = nextReviewAt = the
\* time of the call, which makes the item due at once.
C9_InitializeCreates ==
    Initialized =>
        \A id \in last.ids \ DOMAIN last.pre :
            /\ id \in DOMAIN States
            /\ Card(States[id]) = <<250, 0, 0>>
            /\ States[id].lastReviewedAt = States[id].nextReviewAt
            /\ last.at <= States[id].lastReviewedAt
            /\ States[id].nextReviewAt <= now

\* C10. Idempotent initialize: an initialising handler, whichever of the three,
\* leaves every ReviewState that existed before the call exactly as it was.
C10_IdempotentInitialize ==
    Initialized =>
        \A id \in DOMAIN last.pre :
            id \in DOMAIN States /\ States[id] = last.pre[id]

\* C18: the repetitions of every stored ReviewState are the number of ratings of
\* quality >= 3 the item has received in a row up to now, counted from its last
\* rating of quality < 3, or from the creation of the state where none came since.
C18_RepetitionsCountPasses ==
    \A id \in DOMAIN States : States[id].repetitions = passes[id]

\* A fourth rating that is the second pass in a row: what came before the two
\* passes was a lapse or a state made anew.
C18_Witness ==
    /\ RatedExisting
    /\ ratings = MaxRatings
    /\ last.quality >= 3
    /\ passes[LastItem] = 2
    /\ After.repetitions = 2

\* C19: given the same calls at the same times from the same ReviewState, the
\* two updateFlashcard copies leave the same ReviewStates: ease factor, interval,
\* repetitions, lastReviewedAt and nextReviewAt.
C19_SameSchedule ==
    backend = "both" => RemoteStates(flashcard_reviews) = flashcard_progress

\* Both copies have just grown an interval by the ease factor, and agree on it.
C19_Witness ==
    /\ backend = "both"
    /\ RatedExisting
    /\ last.quality >= 3
    /\ Before.repetitions >= 2
    /\ Before.intervalDays >= 2
    /\ After.intervalDays = MathRound(Before.intervalDays * After.easeFactor)
    /\ flashcard_reviews[LastItem].interval_days = After.intervalDays

\* The items with a ReviewState of nextReviewAt <= t, among ids.
DueAt(ids, t) == {id \in ids \cap DOMAIN States : States[id].nextReviewAt <= t}

\* C11. Due-set correctness: a due query returns exactly the items with
\* nextReviewAt <= now, however many there are: getDueFlashcards over all the
\* rows of the user, the session filter over the words of the deck or level.
C11_DueSet ==
    /\ last.op = "getDueFlashcards" => last.result = DueAt(Items, last.at)
    /\ last.op = "loadVocabulary" => last.result = DueAt(last.ids, last.filteredAt)

\* C17. Frame: a ReviewState that exists is changed by updateFlashcard alone and
\* removed by resetProgress alone; no initialising handler, due query or
\* statistics handler changes or removes one.
C17_OnlyRateChanges ==
    \A id \in DOMAIN last.pre :
        /\ id \notin DOMAIN States => last.op = "resetProgress"
        /\ (id \in DOMAIN States /\ States[id] # last.pre[id]) =>
               last.op = "updateFlashcard"

\* C20. An initialize of either service (ensureFlashcardsExist,
\* initializeFlashcards) called with no ids, or with ids that all have a
\* ReviewState, leaves every persisted value as it was: the rows, the progress
\* map and the stored due count.
C20_NoOpInitialize ==
    [][\A ids \in SUBSET DOMAIN States :
          (EnsureFlashcardsExist(ids) \/ InitializeFlashcards(ids)) =>
              /\ flashcard_reviews' = flashcard_reviews
              /\ flashcard_progress' = flashcard_progress
              /\ review_due' = review_due]_vars

\* C16. A failing storage call in rate: where the read or the write of the
\* ReviewState fails, updateFlashcard reports the failure to its caller and
\* every stored ReviewState is what it was before the call.
C16_FailureReported ==
    (Rated /\ (~last.readOk \/ ~last.writeOk)) =>
        /\ last.result = "error"
        /\ States = last.pre

\* The calls of SpecRace: which are ratings, which initialise, which are over.
IsRate(i) == calls[i].op = "updateFlashcard"
IsInitialize(i) == calls[i].op \in {"ensureFlashcardsExist", "initializeFlashcards"}
Done(i) == calls[i].pc = "done"
ItemOf(i) == CHOOSE id \in calls[i].ids : TRUE

\* The card an item had in states, 2.5 / 0 / 0 where it had none, and the card a
\* rating of quality q makes of a card, by the scheduler of the service.
CardIn(states, id) == IF id \in DOMAIN states THEN Card(states[id]) ELSE <<250, 0, 0>>
RateCard(card, q) ==
    LET r == IF backend = "remote"
             THEN FlashcardService_sm2(card[1], card[3], card[2], q)
             ELSE UnifiedProgressService_sm2(card[1], card[3], card[2], q)
    IN  <<r.easeFactor, r.intervalDays, r.repetitions>>

\* C12. Two updateFlashcard calls on one item, in flight at the same time or
\* not: once both are over, the item's card is what the two ratings make of the
\* card it had, applied one after the other in one of the two orders.
C12_RateAtomic ==
    \A i, j \in 1..Len(calls) :
        (i < j /\ IsRate(i) /\ IsRate(j) /\ Done(i) /\ Done(j)
               /\ ItemOf(i) = ItemOf(j)) =>
            LET base == CardIn(calls[i].pre, ItemOf(i))
                qi == calls[i].quality
                qj == calls[j].quality
            IN  CardIn(States, ItemOf(i)) \in {RateCard(RateCard(base, qi), qj),
                                               RateCard(RateCard(base, qj), qi)}

\* C13. Two updateFlashcard calls on two items, in any interleaving: once both
\* are over, each item has the card its own rating alone makes of the card it had.
C13_RatesIndependent ==
    \A i, j \in 1..Len(calls) :
        (i # j /\ IsRate(i) /\ IsRate(j) /\ Done(i) /\ Done(j)
               /\ ItemOf(i) # ItemOf(j)) =>
            /\ ItemOf(i) \in DOMAIN States
            /\ Card(States[ItemOf(i)]) =
                  RateCard(CardIn(calls[Min(i, j)].pre, ItemOf(i)), calls[i].quality)

\* C14. The write of an initialising call (the insert of ensureFlashcardsExist,
\* the setItem of initializeFlashcards) leaves in place, unchanged, the
\* ReviewState an updateFlashcard call that is over has written.
C14_InitializeKeepsRating ==
    [][\A j \in 1..Len(calls) :
          (IsInitialize(j) /\ (Insert(j) \/ SetItem(j))) =>
              \A i \in 1..Len(calls) :
                  (IsRate(i) /\ Done(i)) =>
                      /\ ItemOf(i) \in DOMAIN States'
                      /\ States'[ItemOf(i)] = calls[i].wrote[ItemOf(i)]]_vars

\* C15. Initialising calls with overlapping id sets, in any interleaving: every
\* such call that is over has succeeded, and every id it was given has its
\* ReviewState (a store holds one state per item at most).
C15_InitializeRaceSafe ==
    (\A k \in 1..Len(calls) : IsInitialize(k)) =>
        \A i \in 1..Len(calls) :
            Done(i) =>
                /\ calls[i].result = "ok"
                /\ calls[i].ids \subseteq DOMAIN States

\* C21. The state machine of a ReviewState by its repetitions (Learning 0-1,
\* Young 2, Mature 3 and more): the repetitions of an existing state change on
\* updateFlashcard alone; a rating below 3 leads to repetitions 0; a rating of 3
\* or more adds exactly one.
C21_Transitions ==
    /\ \A id \in (DOMAIN last.pre) \cap DOMAIN States :
           States[id].repetitions # last.pre[id].repetitions => Rated
    /\ (Rated /\ last.quality < 3) => After.repetitions = 0
    /\ (RatedExisting /\ last.quality >= 3) =>
           After.repetitions = Before.repetitions + 1

\* C25. A rated item leaves the due set: right after an updateFlashcard of any
\* quality 0..5, called at time last.at, the item has intervalDays >= 1 and
\* nextReviewAt later than that time, and is not among the items due at it.
C25_RatedLeavesDue ==
    Rated =>
        /\ After.intervalDays >= 1
        /\ After.nextReviewAt > last.at
        /\ LastItem \notin DueAt(Items, last.at)

\* An item that was due when the call was made has been rated, and is due no more.
C25_Witness ==
    /\ RatedExisting
    /\ Before.nextReviewAt <= last.at
    /\ LastItem \notin DueAt(Items, now)

\* C26. Repetitions and interval go together in every stored ReviewState:
\* repetitions 0 with an interval of 0 or 1 day, 1 with 1, 2 with 6, 3 and more
\* with 8 and more; and a pass on a state that has repetitions >= 1 makes the
\* interval strictly longer.
C26_RepetitionsInterval ==
    /\ \A id \in DOMAIN States :
           LET n == States[id].repetitions
               i == States[id].intervalDays
           IN  /\ n = 0 => i \in {0, 1}
               /\ n = 1 => i = 1
               /\ n = 2 => i = 6
               /\ n >= 3 => i >= 8
    /\ (RatedExisting /\ last.quality >= 3 /\ Before.repetitions >= 1) =>
           After.intervalDays > Before.intervalDays

\* A third pass in a row at the lowest ease the ratings 0..5 lead to.
C26_Witness ==
    /\ RatedExisting
    /\ last.quality = 3
    /\ Before.repetitions = 2
    /\ After.repetitions = 3
    /\ After.easeFactor = 130
    /\ After.intervalDays = 8

\* C24. The local store loses no state of another item: after
\* UnifiedProgressService.updateFlashcard(X) every item but X, and after
\* initializeFlashcards every item that had a ReviewState, has the state it had
\* before the call, whether or not the reading of the stored map failed.
C24_OtherItemsKept ==
    (backend = "local" /\ last.op \in {"updateFlashcard", "initializeFlashcards"}) =>
        \A id \in (DOMAIN last.pre) \ (IF Rated THEN last.ids ELSE {}) :
            /\ id \in DOMAIN States
            /\ States[id] = last.pre[id]

\* C22. The due count a screen shows for a collection is the number of its
\* items that have a ReviewState with nextReviewAt <= now; the items with no
\* ReviewState are the new ones, counted apart and never in the due count.
C22_DueCount ==
    /\ last.op \in {"loadReviewData", "loadDeckData"} =>
           last.result.dueCards = Cardinality(DueAt(last.ids, last.filteredAt))
    /\ last.op = "loadReviewData" =>
           last.result.newCards = Cardinality(last.ids \ DOMAIN States)

\* C23. The accuracy of a deck is 0 where none of its ReviewStates has
\* repetitions > 0, a deck with no ReviewState included.
C23_AccuracyZero ==
    (last.op = "loadReviewData"
        /\ \A id \in last.ids \cap DOMAIN States : States[id].repetitions = 0) =>
        last.result.accuracy = 0

\* A deck with ReviewStates, none of them reviewed.
C23_Witness ==
    /\ last.op = "loadReviewData"
    /\ last.ids \cap DOMAIN States # {}
    /\ \A id \in last.ids \cap DOMAIN States : States[id].repetitions = 0
    /\ last.result.accuracy = 0

\* C27. The accuracy of a deck is 100 where one of its ReviewStates has
\* repetitions > 0, and 0 otherwise: never a number between.
C27_AccuracyAllOrNothing ==
    last.op = "loadReviewData" =>
        last.result.accuracy =
            IF \E id \in last.ids \cap DOMAIN States : States[id].repetitions > 0
            THEN 100 ELSE 0

\* A deck with a card of repetitions 1 and a card of repetitions 0.
C27_Witness ==
    /\ last.op = "loadReviewData"
    /\ \E id \in last.ids \cap DOMAIN States : States[id].repetitions = 1
    /\ \E id \in last.ids \cap DOMAIN States : States[id].repetitions = 0
    /\ last.result.accuracy = 100

\* C28. With a card list that is not empty, currentCardIndex is an index of
\* the list; a press on a rating button does not move it, and the rating moves
\* it only when its updateFlashcard has succeeded: a failed update leaves it
\* where it was.
C28_IndexInRange ==
    /\ session.vocabulary # <<>> =>
           session.currentCardIndex \in 0..(Len(session.vocabulary) - 1)
    /\ last.op = "pressRating" => session.currentCardIndex = last.index
    /\ (last.op = "handleRating" /\ session.currentCardIndex # last.index) =>
           last.result = "ok"

\* A rating of the last of two cards succeeded and the index stayed on it.
C28_Witness ==
    /\ last.op = "handleRating" /\ last.result = "ok"
    /\ Len(session.vocabulary) = 2
    /\ last.rendered = 1 /\ session.currentCardIndex = 1

\* C29. updateStreak, today being the day of its new Date(): with no last
\* study date stored the streak becomes 1; with today stored the streak and
\* the date stay; with the day before today stored the streak grows by 1; with
\* an earlier day stored the streak becomes 1; where it changes anything the
\* date becomes today; and after completeLesson the streak is at least 1.
C29_StreakTransition ==
    last.op \in {"updateStreak", "completeLesson"} =>
        LET today == last.readAt \div TicksPerDay
            stored == last.stored
        IN  /\ stored.LAST_STUDY_DATE = NoItem =>
                   user_progress.STREAK = 1
            /\ stored.LAST_STUDY_DATE = today =>
                   /\ user_progress.STREAK = stored.STREAK
                   /\ user_progress.LAST_STUDY_DATE = stored.LAST_STUDY_DATE
            /\ (stored.LAST_STUDY_DATE # NoItem /\ stored.LAST_STUDY_DATE = today - 1) =>
                   user_progress.STREAK = stored.STREAK + 1
            /\ (stored.LAST_STUDY_DATE # NoItem /\ stored.LAST_STUDY_DATE < today - 1) =>
                   user_progress.STREAK = 1
            /\ stored.LAST_STUDY_DATE # today =>
                   user_progress.LAST_STUDY_DATE = today
            /\ last.op = "completeLesson" => user_progress.STREAK >= 1
            /\ last.op = "completeLesson" =>
                   last.lessonId \in user_progress.COMPLETED_LESSONS

\* A lesson completed at the first instant of the day after the day a streak
\* of 2 was last studied on.
C29_Witness ==
    /\ last.op = "completeLesson"
    /\ last.stored.STREAK = 2
    /\ last.stored.LAST_STUDY_DATE = (last.readAt \div TicksPerDay) - 1
    /\ last.readAt % TicksPerDay = 0
    /\ user_progress.STREAK = 3

\* C30. getAllScenarios queries the backend only when no list is cached or the
\* cached one is 5 minutes old or older; a call made less than 5 minutes after
\* a fetch that succeeded returns the cached list with no query; a fetch that
\* failed leaves the cache and its timestamp as they were; and the first call
\* after clearCache queries.
C30_CacheFreshness ==
    /\ (last.op = "getAllScenarios" /\ last.query) =>
           \/ last.cache.scenariosCache = NoItem
           \/ last.at - last.cache.cacheTimestamp >= CACHE_DURATION
    /\ (last.op = "getAllScenarios"
           /\ \E f \in last.cache.fetched : last.at - f < CACHE_DURATION) =>
           /\ ~last.query
           /\ last.result = last.cache.scenariosCache
    /\ (last.op = "getAllScenariosResumes" /\ last.threw) =>
           /\ scenario_cache.scenariosCache = last.cache.scenariosCache
           /\ scenario_cache.cacheTimestamp = last.cache.cacheTimestamp
    /\ (last.op = "getAllScenarios" /\ last.cache.cleared) => last.query
====
